---------------------------- MODULE Spec2Model ----------------------------
(***************************************************************************)
(* Highlights-Video-Generator.                                             *)
(*                                                                         *)
(* Three specifications share this module:                                 *)
(*   SpecSel       the Budgeted Segment Selector (HighlightCreator), a     *)
(*                 pure function of the candidates and the target;         *)
(*   Spec          one script run of main() of app.py, and the stand-alone *)
(*                 helper create_simple_highlight_intro;                   *)
(*   SpecSessions  NumRequests sessions running main() concurrently over   *)
(*                 one file system and one clock.                          *)
(* Times are whole seconds (the selector's 1-second budget buckets),       *)
(* scores are integers (hundredths in Scenario A).                         *)
(***************************************************************************)
EXTENDS Integers, Sequences, FiniteSets, TLC

VARIABLES
    \* ---- selector ----
    candidates,        \* the Candidate Builder's output, sorted by start
    targetDuration,    \* budget of the first selector run
    plan,              \* SelectionPlan of the first run
    budget2,           \* budget of the second run on the same candidates
    plan2,             \* SelectionPlan of the second run
    selPc              \* "build" | "selected" | "compared"

selVars == <<candidates, targetDuration, plan, budget2, plan2, selPc>>

VARIABLES
    \* ---- shared by all requests ----
    clock,             \* datetime.now(), in whole seconds
    tempDirs,          \* the temporary directories that exist
    outputFiles,       \* files of the shared "output" directory: name -> bytes
    \* ---- one script run of main() per request ----
    pc,                \* where the run is
    uploaded_file,     \* uploaded_file.name, or "none"
    temp_dir,          \* tempfile.mkdtemp(), 0 before it is made
    video_info,        \* get_video_info(temp_path): NoInfo or the duration
    scenes,            \* "unset" | "some" | "empty"
    audio_highlights,
    action_highlights,
    target_duration,   \* -1 while unset
    highlights,        \* "unset" | "some" | "empty"
    output_path,       \* Unset | NonePath | a file name
    exc,               \* the stage whose call raised, "none" otherwise
    shown,             \* what st.success / st.error displayed
    \* ---- create_simple_highlight_intro ----
    introRun,          \* what ffmpeg did in the last call
    introResult        \* what the call returned

fsVars == <<clock, tempDirs, outputFiles>>
reqVars == <<pc, uploaded_file, temp_dir, video_info, scenes, audio_highlights,
             action_highlights, target_duration, highlights, output_path, exc, shown>>
introVars == <<introRun, introResult>>

vars == <<selVars, fsVars, reqVars, introVars>>

\* ------------------------------------------------------------------ bounds
MaxTime == 6        \* candidates lie in [0, MaxTime]
MaxCands == 3       \* candidates per request
MaxScore == 2       \* aggregate scores 0..MaxScore
MaxBudget == 6      \* target durations -1..MaxBudget

Scores == 0..MaxScore
Budgets == (-1)..MaxBudget

\* ---------------------------------------------------------------- selector
MinFillPercent == 90
TolerancePercent == 105

Duration(c) == c.end - c.start

RECURSIVE TotalDuration(_)
TotalDuration(p) ==
    IF p = <<>> THEN 0 ELSE Duration(Head(p)) + TotalDuration(Tail(p))

RECURSIVE TotalScore(_)
TotalScore(p) ==
    IF p = <<>> THEN 0 ELSE Head(p).score + TotalScore(Tail(p))

\* A candidate fits a remaining budget of b one-second buckets.
FitsStrict(c, b) == Duration(c) < b
Fits(c, b) == Duration(c) <= b

\* Candidates longer than the whole budget are excluded from consideration.
Eligible(cs, T) == SelectSeq(cs, LAMBDA c : Fits(c, T))

\* DP[i][b]: best total score of a subset of the first i candidates whose
\* total duration is at most b; skip or take candidate i.
RECURSIVE DP(_, _, _)
DP(cs, i, b) ==
    IF i = 0 THEN 0
    ELSE LET skip == DP(cs, i - 1, b)
         IN  IF Fits(cs[i], b)
             THEN LET take == DP(cs, i - 1, b - Duration(cs[i])) + cs[i].score
                  IN  IF take > skip THEN take ELSE skip
             ELSE skip

\* Backtracking: candidate i is taken only when taking it is strictly better,
\* so a tie keeps the chronologically earlier candidates.
RECURSIVE Backtrack(_, _, _)
Backtrack(cs, i, b) ==
    IF i = 0 THEN <<>>
    ELSE IF /\ Fits(cs[i], b)
            /\ DP(cs, i - 1, b - Duration(cs[i])) + cs[i].score > DP(cs, i - 1, b)
         THEN Append(Backtrack(cs, i - 1, b - Duration(cs[i])), cs[i])
         ELSE Backtrack(cs, i - 1, b)

\* The plan is shorter than the minimum fraction of the target.
Underfilled(p, T) == TotalDuration(p) * 100 < MinFillPercent * T

\* What replaces an under-filled plan: every candidate under consideration.
FullSetUnfiltered(cs, T) == cs
FullSet(cs, T) == Eligible(cs, T)

SelectPlan(cs, T) ==
    IF T <= 0 \/ cs = <<>> THEN <<>>
    ELSE LET elig == Eligible(cs, T)
             best == Backtrack(elig, Len(elig), T)
         IN  IF Underfilled(best, T) THEN FullSet(cs, T) ELSE best

ScenarioA ==
    << [start |-> 0,  end |-> 10, score |-> 90],
       [start |-> 15, end |-> 20, score |-> 40],
       [start |-> 25, end |-> 40, score |-> 95] >>
ScenarioATarget == 20

LastEnd(cs) == IF cs = <<>> THEN 0 ELSE cs[Len(cs)].end

InitSel ==
    /\ candidates = <<>>
    /\ targetDuration = 0
    /\ plan = <<>>
    /\ budget2 = 0
    /\ plan2 = <<>>
    /\ selPc = "build"

\* The Candidate Builder emits one more candidate, after the ones so far.
AddCandidate ==
    /\ selPc = "build"
    /\ Len(candidates) < MaxCands
    /\ \E s \in LastEnd(candidates)..(MaxTime - 1), e \in 1..MaxTime, sc \in Scores :
          /\ s < e
          /\ candidates' = Append(candidates, [start |-> s, end |-> e, score |-> sc])
    /\ UNCHANGED <<targetDuration, plan, budget2, plan2, selPc>>
    /\ UNCHANGED <<fsVars, reqVars, introVars>>

LoadScenarioA ==
    /\ selPc = "build"
    /\ candidates = <<>>
    /\ candidates' = ScenarioA
    /\ UNCHANGED <<targetDuration, plan, budget2, plan2, selPc>>
    /\ UNCHANGED <<fsVars, reqVars, introVars>>

Select ==
    /\ selPc = "build"
    /\ \E T \in IF candidates = ScenarioA THEN {ScenarioATarget} ELSE Budgets :
          /\ targetDuration' = T
          /\ plan' = SelectPlan(candidates, T)
    /\ selPc' = "selected"
    /\ UNCHANGED <<candidates, budget2, plan2>>
    /\ UNCHANGED <<fsVars, reqVars, introVars>>

SelectLarger ==
    /\ selPc = "selected"
    /\ candidates # ScenarioA
    /\ \E T2 \in targetDuration..MaxBudget :
          /\ budget2' = T2
          /\ plan2' = SelectPlan(candidates, T2)
    /\ selPc' = "compared"
    /\ UNCHANGED <<candidates, targetDuration, plan>>
    /\ UNCHANGED <<fsVars, reqVars, introVars>>

NextSel == AddCandidate \/ LoadScenarioA \/ Select \/ SelectLarger

\* ------------------------------------------------------------ app.py main()
NumRequests == 2    \* concurrent sessions
MaxClock == 1       \* the clock shows seconds 0..MaxClock

Requests == 1..NumRequests
UploadNames == {"clip.mp4"}
NoInfo == -1                          \* get_video_info returned None
VideoInfos == {NoInfo, 100, 300}      \* None, or the duration in seconds
IntroMinBytes == 1000
FileSizes == {0, IntroMinBytes, IntroMinBytes + 1}

\* The stages of the try block, in program order.
StageOrderSelectEarly ==
    <<"scenes", "audio", "select", "action", "target", "assemble", "display">>
StageOrder ==
    <<"scenes", "audio", "action", "target", "select", "assemble", "display">>

StageIndex(s) == CHOOSE i \in 1..Len(StageOrder) : StageOrder[i] = s
NextStage(s) ==
    IF StageIndex(s) = Len(StageOrder) THEN "done" ELSE StageOrder[StageIndex(s) + 1]

NoMessage == [kind |-> "none", text |-> "", detail |-> ""]
FailedText == "Failed to create highlight video. Check if FFmpeg is installed."
ExceptionText == "Error generating highlights: "
SuccessText == "Highlight video created successfully"

\* The pipeline stage a displayed text names, "none" when it names none.
StageNamed(text) == IF text = FailedText THEN "assembly" ELSE "none"

temp_path(r) == <<temp_dir[r], uploaded_file[r]>>

\* highlights_<timestamp>.mp4 in "output", the timestamp to the second.
AppOutputPath(timestamp) == <<"output", "highlights", timestamp>>
\* The name the video editor gives the file it writes in output_dir: the
\* timestamp and the source identifier, here the video_path it was handed.
EditorOutputPath(timestamp, video_path) ==
    <<"output", "highlights", timestamp, video_path>>

\* tempfile.mkdtemp(): a directory that did not exist.
MkdtempReuse(dirs) == 1..(Cardinality(dirs) + 1)
Mkdtemp(dirs) == {d \in 1..(Cardinality(dirs) + 1) : d \notin dirs}

Unset == <<"unset">>
NonePath == <<>>

Exists(path) == path \in DOMAIN outputFiles

InitApp ==
    /\ clock = 0
    /\ tempDirs = {}
    /\ outputFiles = <<>>
    /\ pc = [r \in Requests |-> "start"]
    /\ uploaded_file = [r \in Requests |-> "none"]
    /\ temp_dir = [r \in Requests |-> 0]
    /\ video_info = [r \in Requests |-> NoInfo]
    /\ scenes = [r \in Requests |-> "unset"]
    /\ audio_highlights = [r \in Requests |-> "unset"]
    /\ action_highlights = [r \in Requests |-> "unset"]
    /\ target_duration = [r \in Requests |-> -1]
    /\ highlights = [r \in Requests |-> "unset"]
    /\ output_path = [r \in Requests |-> Unset]
    /\ exc = [r \in Requests |-> "none"]
    /\ shown = [r \in Requests |-> NoMessage]
    /\ introRun = [called |-> FALSE, raised |-> FALSE, returncode |-> 0,
                   exists |-> FALSE, size |-> 0]
    /\ introResult = FALSE

Init == InitSel /\ InitApp

SpecSel == Init /\ [][NextSel]_vars

Tick ==
    /\ clock < MaxClock
    /\ clock' = clock + 1
    /\ UNCHANGED <<tempDirs, outputFiles, reqVars, introVars, selVars>>

\* An exception raised by a call made inside the try block of main().
Raise(r, stage) ==
    /\ pc' = [pc EXCEPT ![r] = "except"]
    /\ exc' = [exc EXCEPT ![r] = stage]

Goto(r, stage) ==
    /\ pc' = [pc EXCEPT ![r] = stage]
    /\ UNCHANGED exc

\* if uploaded_file: mkdtemp, write the upload into it.
SaveUpload(r) ==
    /\ pc[r] = "start"
    /\ \E name \in UploadNames, d \in Mkdtemp(tempDirs) :
          /\ uploaded_file' = [uploaded_file EXCEPT ![r] = name]
          /\ temp_dir' = [temp_dir EXCEPT ![r] = d]
          /\ tempDirs' = tempDirs \cup {d}
    /\ pc' = [pc EXCEPT ![r] = "preview"]
    /\ UNCHANGED <<clock, outputFiles, video_info, scenes, audio_highlights,
                   action_highlights, target_duration, highlights, output_path,
                   exc, shown, introVars, selVars>>

\* The preview expander: video_info = get_video_info(temp_path).
Preview(r) ==
    /\ pc[r] = "preview"
    /\ \E info \in VideoInfos : video_info' = [video_info EXCEPT ![r] = info]
    /\ pc' = [pc EXCEPT ![r] = "button"]
    /\ UNCHANGED <<fsVars, uploaded_file, temp_dir, scenes, audio_highlights,
                   action_highlights, target_duration, highlights, output_path,
                   exc, shown, introVars, selVars>>

\* st.button is False: the script run ends, the user has abandoned the upload.
Abandon(r) ==
    /\ pc[r] = "button"
    /\ pc' = [pc EXCEPT ![r] = "ended"]
    /\ UNCHANGED <<fsVars, uploaded_file, temp_dir, video_info, scenes,
                   audio_highlights, action_highlights, target_duration,
                   highlights, output_path, exc, shown, introVars, selVars>>

\* st.button is True: the try block is entered and the processing objects
\* are constructed, which may raise.
ClickGenerate(r) ==
    /\ pc[r] = "button"
    /\ \/ Goto(r, StageOrder[1])
       \/ Raise(r, "setup")
    /\ UNCHANGED <<fsVars, uploaded_file, temp_dir, video_info, scenes,
                   audio_highlights, action_highlights, target_duration,
                   highlights, output_path, shown, introVars, selVars>>

DetectorResults == {"some", "empty"}

DetectScenes(r) ==
    /\ pc[r] = "scenes"
    /\ \/ /\ \E res \in DetectorResults : scenes' = [scenes EXCEPT ![r] = res]
          /\ Goto(r, NextStage("scenes"))
       \/ /\ Raise(r, "scenes")
          /\ UNCHANGED scenes
    /\ UNCHANGED <<fsVars, uploaded_file, temp_dir, video_info, audio_highlights,
                   action_highlights, target_duration, highlights, output_path,
                   shown, introVars, selVars>>

AnalyzeAudio(r) ==
    /\ pc[r] = "audio"
    /\ \/ /\ \E res \in DetectorResults :
                audio_highlights' = [audio_highlights EXCEPT ![r] = res]
          /\ Goto(r, NextStage("audio"))
       \/ /\ Raise(r, "audio")
          /\ UNCHANGED audio_highlights
    /\ UNCHANGED <<fsVars, uploaded_file, temp_dir, video_info, scenes,
                   action_highlights, target_duration, highlights, output_path,
                   shown, introVars, selVars>>

DetectActions(r) ==
    /\ pc[r] = "action"
    /\ \/ /\ \E res \in DetectorResults :
                action_highlights' = [action_highlights EXCEPT ![r] = res]
          /\ Goto(r, NextStage("action"))
       \/ /\ Raise(r, "action")
          /\ UNCHANGED action_highlights
    /\ UNCHANGED <<fsVars, uploaded_file, temp_dir, video_info, scenes,
                   audio_highlights, target_duration, highlights, output_path,
                   shown, introVars, selVars>>

Min(a, b) == IF a < b THEN a ELSE b

\* video_duration = duration if video_info else 0;
\* target_duration = min(60, video_duration * 0.3) if video_duration else 60
TargetDuration(info) ==
    LET video_duration == IF info = NoInfo THEN 0 ELSE info
    IN  IF video_duration # 0 THEN Min(60, (video_duration * 3) \div 10) ELSE 60

ComputeTarget(r) ==
    /\ pc[r] = "target"
    /\ target_duration' = [target_duration EXCEPT ![r] = TargetDuration(video_info[r])]
    /\ Goto(r, NextStage("target"))
    /\ UNCHANGED <<fsVars, uploaded_file, temp_dir, video_info, scenes,
                   audio_highlights, action_highlights, highlights, output_path,
                   shown, introVars, selVars>>

\* highlight_creator.create_highlights: no signal gives no candidate, hence an
\* empty plan.
PlanResults(r) ==
    IF {scenes[r], audio_highlights[r], action_highlights[r]} \subseteq {"empty", "unset"}
    THEN {"empty"} ELSE {"some", "empty"}

CreateHighlights(r) ==
    /\ pc[r] = "select"
    /\ \/ /\ \E res \in PlanResults(r) : highlights' = [highlights EXCEPT ![r] = res]
          /\ Goto(r, NextStage("select"))
       \/ /\ Raise(r, "select")
          /\ UNCHANGED highlights
    /\ UNCHANGED <<fsVars, uploaded_file, temp_dir, video_info, scenes,
                   audio_highlights, action_highlights, target_duration,
                   output_path, shown, introVars, selVars>>

\* "Non-trivial in size": more than IntroMinBytes bytes.
NonTrivial(size) == size > IntroMinBytes

WriteFile(name, size) ==
    [n \in DOMAIN outputFiles \cup {name} |-> IF n = name THEN size ELSE outputFiles[n]]

\* What video_editor.create_highlight_video can do: write a non-trivial file
\* and return its path (only for a non-empty plan); fail and return None,
\* leaving nothing or a truncated file behind; or raise.
EditorResults(hl) ==
    {[status |-> "ok", written |-> TRUE, size |-> sz] :
        sz \in {x \in FileSizes : NonTrivial(x) /\ hl = "some"}}
    \cup {[status |-> "failed", written |-> TRUE, size |-> sz] :
        sz \in {x \in FileSizes : ~NonTrivial(x)}}
    \cup {[status |-> "failed", written |-> FALSE, size |-> 0],
          [status |-> "raise", written |-> FALSE, size |-> 0]}

\* timestamp = now; output_path = output/highlights_<timestamp>.mp4;
\* output_path = video_editor.create_highlight_video(video_path=temp_path, ...)
CreateVideo(r) ==
    /\ pc[r] = "assemble"
    /\ LET timestamp == clock
           discarded == AppOutputPath(timestamp)   \* overwritten by the call
           name == EditorOutputPath(timestamp, temp_path(r))
       IN  \E res \in EditorResults(highlights[r]) :
              /\ outputFiles' = IF res.written THEN WriteFile(name, res.size)
                                ELSE outputFiles
              /\ IF res.status = "raise"
                 THEN Raise(r, "assemble") /\ UNCHANGED output_path
                 ELSE /\ output_path' = [output_path EXCEPT ![r] =
                             IF res.status = "ok" THEN name ELSE NonePath]
                      /\ Goto(r, NextStage("assemble"))
    /\ UNCHANGED <<clock, tempDirs, uploaded_file, temp_dir, video_info, scenes,
                   audio_highlights, action_highlights, target_duration,
                   highlights, shown, introVars, selVars>>

\* if output_path and os.path.exists(output_path)
OutputOk(r) == output_path[r] # NonePath /\ Exists(output_path[r])

DisplayResults(r) ==
    /\ pc[r] = "display"
    /\ shown' = [shown EXCEPT ![r] =
                    IF OutputOk(r)
                    THEN [kind |-> "success", text |-> SuccessText, detail |-> ""]
                    ELSE [kind |-> "error", text |-> FailedText, detail |-> ""]]
    /\ Goto(r, NextStage("display"))
    /\ UNCHANGED <<fsVars, uploaded_file, temp_dir, video_info, scenes,
                   audio_highlights, action_highlights, target_duration,
                   highlights, output_path, introVars, selVars>>

\* except Exception as e: st.error(f"Error generating highlights: {str(e)}")
HandleException(r) ==
    /\ pc[r] = "except"
    /\ shown' = [shown EXCEPT ![r] =
                    [kind |-> "error", text |-> ExceptionText, detail |-> "str(e)"]]
    /\ pc' = [pc EXCEPT ![r] = "done"]
    /\ UNCHANGED <<fsVars, uploaded_file, temp_dir, video_info, scenes,
                   audio_highlights, action_highlights, target_duration,
                   highlights, output_path, exc, introVars, selVars>>

\* ------------------------------------------- create_simple_highlight_intro
\* raised: the try body raised; returncode: ffmpeg's exit code; exists, size:
\* output_path afterwards.
CreateSimpleHighlightIntroNoSize(raised, returncode, exists, size) ==
    IF raised THEN FALSE
    ELSE IF returncode # 0 THEN FALSE
    ELSE exists
CreateSimpleHighlightIntro(raised, returncode, exists, size) ==
    IF raised THEN FALSE
    ELSE IF returncode # 0 THEN FALSE
    ELSE IF exists /\ NonTrivial(size) THEN TRUE
    ELSE FALSE

RunIntro ==
    /\ ~introRun.called
    /\ \E raised \in BOOLEAN, returncode \in {0, 1}, exists \in BOOLEAN, size \in FileSizes :
          /\ ~exists => size = 0
          /\ introRun' = [called |-> TRUE, raised |-> raised, returncode |-> returncode,
                          exists |-> exists, size |-> size]
          /\ introResult' = CreateSimpleHighlightIntro(raised, returncode, exists, size)
    /\ UNCHANGED <<fsVars, reqVars, selVars>>

\* One script run of main() for request r.
Step(r) ==
    \/ SaveUpload(r)
    \/ Preview(r)
    \/ Abandon(r)
    \/ ClickGenerate(r)
    \/ DetectScenes(r)
    \/ AnalyzeAudio(r)
    \/ DetectActions(r)
    \/ ComputeTarget(r)
    \/ CreateHighlights(r)
    \/ CreateVideo(r)
    \/ DisplayResults(r)
    \/ HandleException(r)

\* One session, and the intro helper run on its own.
Next == Tick \/ RunIntro \/ Step(1)

Spec == Init /\ [][Next]_vars

\* NumRequests sessions run main() concurrently.
NextSessions == Tick \/ \E r \in Requests : Step(r)

SpecSessions == Init /\ [][NextSessions]_vars

\* ================================================================ claims

\* ---- selector (SpecSel) ----
Sorted(p) == \A i, j \in DOMAIN p : i < j => p[i].end <= p[j].start

\* C1: every plan the selector returns is sorted by start, pairwise
\* non-overlapping, and at most targetDuration x 1.05 long, on the DP path and
\* on the under-fill path alike (stated for positive targets and scores).
C1_PlanWithinTolerance ==
    (/\ selPc # "build"
     /\ targetDuration > 0
     /\ \A i \in DOMAIN candidates : candidates[i].score > 0) =>
        /\ Sorted(plan)
        /\ TotalDuration(plan) * 100 <= targetDuration * TolerancePercent

ScenarioASelected ==
    candidates = ScenarioA /\ selPc = "selected" /\ targetDuration = ScenarioATarget

\* C2 as stated: in Scenario A the selector returns exactly {(25,40)}.
C2_ScenarioA_Original == ScenarioASelected => plan = <<ScenarioA[3]>>

\* C2 amended: in Scenario A the selector returns exactly {(15,20),(25,40)},
\* the subset of largest total aggregate score that fits 20 seconds.
C2_ScenarioA == ScenarioASelected => plan = <<ScenarioA[2], ScenarioA[3]>>

C2_Witness == ScenarioASelected /\ Len(plan) = 2

\* C3: with the candidates fixed, the plan for a larger budget scores at
\* least as much as the plan for a smaller one.
C3_Monotone ==
    (selPc = "compared" /\ targetDuration <= budget2) =>
        TotalScore(plan2) >= TotalScore(plan)

\* C4: no returned plan holds a candidate longer than the target, whichever
\* path produced it, and the plan is empty when the target is not positive or
\* there are no candidates.
C4_OverlongExcluded ==
    /\ selPc # "build" =>
          /\ \A i \in DOMAIN plan : Duration(plan[i]) <= targetDuration
          /\ (targetDuration <= 0 \/ candidates = <<>>) => plan = <<>>
    /\ selPc = "compared" =>
          /\ \A i \in DOMAIN plan2 : Duration(plan2[i]) <= budget2
          /\ (budget2 <= 0 \/ candidates = <<>>) => plan2 = <<>>

\* An over-long candidate exists and the under-fill path produced the plan.
C4_Witness ==
    /\ selPc = "selected"
    /\ targetDuration > 0
    /\ \E i \in DOMAIN candidates : Duration(candidates[i]) > targetDuration
    /\ plan # <<>>
    /\ LET elig == Eligible(candidates, targetDuration)
       IN  Underfilled(Backtrack(elig, Len(elig), targetDuration), targetDuration)

\* ---- one request (Spec) ----
\* C5: when one detector fails and the other two succeed, the request still
\* runs selection and assembly and ends with the assembled result.
C5_DegradesGracefully ==
    \A r \in Requests :
        (/\ pc[r] = "done"
         /\ scenes[r] = "some"
         /\ audio_highlights[r] = "some"
         /\ exc[r] = "action")
        => (highlights[r] # "unset" /\ output_path[r] # Unset)

\* C6: when a request has ended, its temporary directory no longer exists.
C6_TempDirRemoved ==
    \A r \in Requests : pc[r] \in {"done", "ended"} => temp_dir[r] \notin tempDirs

C9_ErrorNamesStage ==
    \A r \in Requests : shown[r].kind = "error" => StageNamed(shown[r].text) # "none"

\* C10: selection starts only after all three detectors have returned and the
\* target duration is computed, the target duration is computed only after the
\* detectors, assembly starts only after selection has returned, and a result
\* is shown only after assembly has returned or an exception ended the run.
DetectorsReturned(r) ==
    /\ scenes[r] # "unset"
    /\ audio_highlights[r] # "unset"
    /\ action_highlights[r] # "unset"

C10_StageOrder ==
    \A r \in Requests :
        /\ target_duration[r] # -1 => DetectorsReturned(r)
        /\ (pc[r] = "select" \/ highlights[r] # "unset") =>
              (DetectorsReturned(r) /\ target_duration[r] # -1)
        /\ (pc[r] = "assemble" \/ output_path[r] # Unset) => highlights[r] # "unset"
        /\ shown[r].kind # "none" => (output_path[r] # Unset \/ exc[r] # "none")
        /\ pc[r] = "display" => (output_path[r] # Unset /\ shown[r].kind = "none")

C10_Witness ==
    /\ pc[1] = "done"
    /\ shown[1].kind = "success"
    /\ target_duration[1] = 30

\* ---- concurrent requests (SpecSessions) ----
Produced(r) == output_path[r] # Unset /\ output_path[r] # NonePath

=============================================================================
